---- MODULE Spec2Model ----
(***************************************************************************)
(* CLI-Chess: the board (board.py), the pieces (pieces.py) and the move    *)
(* generators (moves.py).  Python values are modelled as follows:          *)
(*   a Position (x, y)    the tuple <<x, y>>                               *)
(*   a Piece              a record with the dataclass's seven fields       *)
(*   Board.pieces (Grid)  a function from the dict's keys to Pieces        *)
(*   a str                a sequence of one-character strings              *)
(*   a call's outcome     [raised, type, value]: raised is "KeyError" when *)
(*                        a dict lookup failed, "" otherwise; type is the  *)
(*                        Python type of the value returned                *)
(***************************************************************************)
EXTENDS Integers, Sequences, FiniteSets

VARIABLES fen, pieces, pc, call, ret

vars == <<fen, pieces, pc, call, ret>>

(***************************************************************************)
(* pieces.py                                                               *)
(***************************************************************************)

\* class PieceType(Enum): the members' values
EMPTY == "empty"
PAWN == "pawn"
ROOK == "rook"
BISHOP == "bishop"
QUEEN == "queen"
KNIGHT == "knight"
KING == "king"

\* class Colour(Enum): the members' values (colour.value)
NONE == -1
WHITE == 0
BLACK == 1

\* FEN_MAP: dict[str, PieceType]
FEN_MAP == [c \in {"p", "r", "b", "q", "k", "n"} |->
              CASE c = "p" -> PAWN
                [] c = "r" -> ROOK
                [] c = "b" -> BISHOP
                [] c = "q" -> QUEEN
                [] c = "k" -> KING
                [] c = "n" -> KNIGHT]

\* The characters a layout is written in, and str's methods on them.
UpperChars == <<"P", "R", "B", "Q", "K", "N">>
LowerChars == <<"p", "r", "b", "q", "k", "n">>
DigitChars == <<"0", "1", "2", "3", "4", "5", "6", "7", "8", "9">>

\* str.isupper() of a one-character string
isupper(c) == \E i \in DOMAIN UpperChars : UpperChars[i] = c

\* str.lower() of a one-character string
lower(c) ==
    IF isupper(c)
    THEN LowerChars[CHOOSE i \in DOMAIN UpperChars : UpperChars[i] = c]
    ELSE c

\* str.isnumeric() of a one-character string
isnumeric(c) == \E i \in DOMAIN DigitChars : DigitChars[i] = c

\* int(c) of a digit
int(c) == (CHOOSE i \in DOMAIN DigitChars : DigitChars[i] = c) - 1

\* Piece(x, y): the dataclass's defaults give an empty square
Piece(x, y) ==
    [x |-> x, y |-> y, colour |-> NONE, type |-> EMPTY,
     has_moved |-> FALSE, moves_made |-> 0, last_moved |-> 0]

\* Piece.from_fen(x, y, fen)
Piece_from_fen(x, y, c) ==
    [Piece(x, y) EXCEPT
        !.colour = IF isupper(c) THEN WHITE ELSE BLACK,
        !.type = FEN_MAP[lower(c)]]

\* Piece.move_to(x, y), on the piece p
Piece_move_to(p, x, y) ==
    [p EXCEPT !.x = x, !.y = y, !.has_moved = TRUE, !.moves_made = @ + 1]

(***************************************************************************)
(* board.py                                                                *)
(***************************************************************************)

\* range(8) in empty_board: the board's side
BoardSize == 8

Squares == (0 .. BoardSize - 1) \X (0 .. BoardSize - 1)

\* empty_board()
empty_board == [k \in Squares |-> Piece(k[1], k[2])]

\* Board.place(piece): a dict assignment, which adds the key if it is new
place(grid, p) ==
    IF <<p.x, p.y>> \in DOMAIN grid
    THEN [grid EXCEPT ![<<p.x, p.y>>] = p]
    ELSE [k \in DOMAIN grid \cup {<<p.x, p.y>>} |->
            IF k = <<p.x, p.y>> THEN p ELSE grid[k]]

\* fen.split("/")
RECURSIVE split(_, _, _)
split(s, i, cur) ==
    IF i > Len(s) THEN <<cur>>
    ELSE IF s[i] = "/" THEN <<cur>> \o split(s, i + 1, <<>>)
    ELSE split(s, i + 1, Append(cur, s[i]))

\* Board.place called on each piece of a list in turn: on a key placed twice
\* the later piece stays
PlaceAll(grid, ps) ==
    LET placed(k) == {i \in DOMAIN ps : ps[i].x = k[1] /\ ps[i].y = k[2]}
        last(k) == CHOOSE i \in placed(k) : \A j \in placed(k) : j <= i
    IN  [k \in DOMAIN grid \cup {<<ps[i].x, ps[i].y>> : i \in DOMAIN ps} |->
            IF placed(k) = {} THEN grid[k] ELSE ps[last(k)]]

\* FenRun with extra advanced on every iteration, the first included
RECURSIVE FenRunEveryStep(_, _, _, _, _)
FenRunEveryStep(indx, y, extra, i, n) ==
    IF i >= n THEN [placed |-> <<>>, extra |-> extra]
    ELSE LET e == extra + 1
             rest == FenRunEveryStep(indx, y, e, i + 1, n)
         IN  [placed |-> <<Piece(indx + e, y)>> \o rest.placed,
              extra |-> rest.extra]

\* Board.from_fen, the loop `for i in range(int(x))` from iteration i on: the
\* pieces it places, in order, and extra as it leaves it
RECURSIVE FenRun(_, _, _, _, _)
FenRun(indx, y, extra, i, n) ==
    IF i >= n THEN [placed |-> <<>>, extra |-> extra]
    ELSE LET e == IF i > 0 THEN extra + 1 ELSE extra
             rest == FenRun(indx, y, e, i + 1, n)
         IN  [placed |-> <<Piece(indx + e, y)>> \o rest.placed,
              extra |-> rest.extra]

\* Board.from_fen, the loop `for indx, x in enumerate(y)` from index indx on:
\* the pieces it places, in order (Python's indx is 0-based: the character is
\* row[indx + 1])
RECURSIVE FenRow(_, _, _, _)
FenRow(row, indy, indx, extra) ==
    IF indx >= Len(row) THEN <<>>
    ELSE LET x == row[indx + 1]
         IN  IF isnumeric(x)
             THEN LET r == FenRun(indx, 7 - indy, extra, 0, int(x))
                  IN  r.placed \o FenRow(row, indy, indx + 1, r.extra)
             ELSE <<Piece_from_fen(indx + extra, 7 - indy, x)>>
                      \o FenRow(row, indy, indx + 1, extra)

\* Board.from_fen, the loop `for indy, y in enumerate(fenlist)` from indy on:
\* the pieces it places, in order; extra starts at 0 in every row
RECURSIVE FenRows(_, _)
FenRows(fenlist, indy) ==
    IF indy >= Len(fenlist) THEN <<>>
    ELSE FenRow(fenlist[indy + 1], indy, 0, 0) \o FenRows(fenlist, indy + 1)

\* Board.from_fen(fen): the grid of the board returned; board = Board() starts
\* from empty_board()
Board_from_fen(s) == PlaceAll(empty_board, FenRows(split(s, 1, <<>>), 0))

\* Board.piece(x, y): self.pieces[(x, y)], a KeyError when the key is absent
HasKey(grid, x, y) == <<x, y>> \in DOMAIN grid

Board_piece(grid, x, y) == grid[<<x, y>>]

\* Board.piece_type(x, y)
Board_piece_type(grid, x, y) == Board_piece(grid, x, y).type

\* Board.empty(x, y)
Board_empty(grid, x, y) == Board_piece(grid, x, y).type = EMPTY

(***************************************************************************)
(* moves.py                                                                *)
(***************************************************************************)

\* A call that returned the list v of positions
Returned(v) == [raised |-> "", type |-> "list[tuple]", value |-> v]

\* A call that a failed dict lookup ended
KeyError == [raised |-> "KeyError", type |-> "", value |-> <<>>]

\* One of the pawn's capture tests:
\*     if square.piece(cx, cy).colour.value == enemy: valid_moves.append((cx, cy))
PawnCapture(grid, r, cx, cy, enemy) ==
    IF r.raised # "" THEN r
    ELSE IF ~HasKey(grid, cx, cy) THEN KeyError
    ELSE IF Board_piece(grid, cx, cy).colour = enemy
         THEN Returned(Append(r.value, <<cx, cy>>))
         ELSE r

\* One of the pawn's forward tests:
\*     if square.empty(fx, fy): valid_moves.append((fx, fy))
PawnForward(grid, r, fx, fy) ==
    IF r.raised # "" THEN r
    ELSE IF ~HasKey(grid, fx, fy) THEN KeyError
    ELSE IF Board_empty(grid, fx, fy)
         THEN Returned(Append(r.value, <<fx, fy>>))
         ELSE r

\* get_valid_moves_pawn, the block of one colour: d is the direction the pawn
\* advances in (+1 in the white block, -1 in the black one), start the rank of
\* the `y == start` test and enemy the colour value the captures look for
PawnBlock(grid, x, y, d, start, enemy) ==
    LET r0 == Returned(<<>>)
        \* if y == start and square.empty(x, y + 2 * d)
        r1 == IF y = start THEN PawnForward(grid, r0, x, y + 2 * d) ELSE r0
        \* if 0 < x > 7: for i in range(-1, 1, 2), which is i = -1 alone
        r2 == IF 0 < x /\ x > 7 THEN PawnCapture(grid, r1, x - 1, y + d, enemy)
              ELSE IF x = 0 THEN PawnCapture(grid, r1, x + 1, y + d, enemy)
              ELSE IF x = 7 THEN PawnCapture(grid, r1, x - 1, y + d, enemy)
              ELSE r1
    IN  PawnForward(grid, r2, x, y + d)

\* get_valid_moves_pawn(square, x, y)
get_valid_moves_pawn(grid, x, y) ==
    IF ~HasKey(grid, x, y) THEN KeyError
    ELSE IF Board_piece(grid, x, y).colour = 0 THEN PawnBlock(grid, x, y, 1, 1, 1)
    ELSE IF Board_piece(grid, x, y).colour = 1 THEN PawnBlock(grid, x, y, -1, 6, 0)
    ELSE [raised |-> "", type |-> "NoneType", value |-> <<>>]

\* get_valid_moves_bishop, the condition of the while loop of direction dir
\* (1 top left, 2 top right, 3 bottom left, 4 bottom right)
BishopWhile(dir, x, y) ==
    CASE dir = 1 -> x > 0 \/ y < 8
      [] dir = 2 -> x < 8 \/ y < 8
      [] dir = 3 -> x > -1 \/ y > -1
      [] dir = 4 -> x < 8 \/ y > -1

\* get_valid_moves_bishop, one while loop: x and y are the function's own
\* variables, which the loop changes and leaves changed for the next loop
RECURSIVE BishopLoop(_, _, _, _, _, _, _, _, _)
BishopLoop(grid, dir, dx, dy, x, y, init_x, init_y, acc) ==
    IF ~BishopWhile(dir, x, y)
    THEN [raised |-> "", x |-> x, y |-> y, value |-> acc]
    ELSE LET nx == x + dx
             ny == y + dy
         IN  IF ~HasKey(grid, nx, ny)
             THEN [raised |-> "KeyError", x |-> nx, y |-> ny, value |-> acc]
             ELSE IF Board_empty(grid, nx, ny)
             THEN BishopLoop(grid, dir, dx, dy, nx, ny, init_x, init_y,
                             Append(acc, <<nx, ny>>))
             ELSE IF ~HasKey(grid, init_x, init_y)
             THEN [raised |-> "KeyError", x |-> nx, y |-> ny, value |-> acc]
             ELSE IF Board_piece(grid, nx, ny).colour
                       # Board_piece(grid, init_x, init_y).colour
             THEN [raised |-> "", x |-> nx, y |-> ny,
                   value |-> Append(acc, <<nx, ny>>)]
             ELSE [raised |-> "", x |-> nx, y |-> ny, value |-> acc]

\* get_valid_moves_bishop(square, x, y)
get_valid_moves_bishop(grid, x, y) ==
    LET l1 == BishopLoop(grid, 1, -1, 1, x, y, x, y, <<>>)
        l2 == IF l1.raised # "" THEN l1
              ELSE BishopLoop(grid, 2, 1, 1, l1.x, l1.y, x, y, l1.value)
        l3 == IF l2.raised # "" THEN l2
              ELSE BishopLoop(grid, 3, -1, -1, l2.x, l2.y, x, y, l2.value)
        l4 == IF l3.raised # "" THEN l3
              ELSE BishopLoop(grid, 4, 1, -1, l3.x, l3.y, x, y, l3.value)
    IN  IF l4.raised # "" THEN KeyError ELSE Returned(l4.value)

\* One iteration of the loop over the offsets of the knight or the king, once
\* the square (mx, my) is known to be looked up:
\*     if square.empty(mx, my): append
\*     elif square.piece(mx, my).colour.value != square.piece(x, y).colour.value: append
OffsetTest(grid, r, x, y, mx, my) ==
    IF ~HasKey(grid, mx, my) THEN KeyError
    ELSE IF Board_empty(grid, mx, my) THEN Returned(Append(r.value, <<mx, my>>))
    ELSE IF ~HasKey(grid, x, y) THEN KeyError
    ELSE IF Board_piece(grid, mx, my).colour # Board_piece(grid, x, y).colour
    THEN Returned(Append(r.value, <<mx, my>>))
    ELSE r

\* get_valid_moves_knight: possible_moves
KnightMoves(x, y) ==
    << <<x - 2, y + 1>>, <<x - 1, y + 2>>, <<x + 1, y + 2>>, <<x + 2, y + 1>>,
       <<x + 2, y - 1>>, <<x + 2, y - 2>>, <<x - 1, y - 2>>, <<x - 2, y - 1>> >>

\* get_valid_moves_knight, the loop `for move in possible_moves` from index i on
RECURSIVE KnightLoop(_, _, _, _, _, _)
KnightLoop(grid, x, y, moves, i, r) ==
    IF r.raised # "" \/ i > Len(moves) THEN r
    ELSE LET mx == moves[i][1]
             my == moves[i][2]
         IN  KnightLoop(grid, x, y, moves, i + 1,
                        IF 8 > mx /\ mx > -1 /\ 8 > my /\ my > -1
                        THEN OffsetTest(grid, r, x, y, mx, my)
                        ELSE r)

\* get_valid_moves_knight(square, x, y)
get_valid_moves_knight(grid, x, y) ==
    KnightLoop(grid, x, y, KnightMoves(x, y), 1, Returned(<<>>))

\* get_valid_moves_rook, one for loop `for i in range(1, n)` from i on, along
\* (dx, dy).  The elif of the loop to the left reads square.piece(y, x - i);
\* the other three read the square the loop is at: swapped tells which.
RECURSIVE RookLoop(_, _, _, _, _, _, _, _, _)
RookLoop(grid, x, y, dx, dy, swapped, i, n, r) ==
    IF r.raised # "" \/ i >= n THEN r
    ELSE LET tx == x + dx * i
             ty == y + dy * i
             ox == IF swapped THEN ty ELSE tx
             oy == IF swapped THEN tx ELSE ty
         IN  IF ~HasKey(grid, tx, ty) THEN KeyError
             ELSE IF Board_empty(grid, tx, ty)
             THEN RookLoop(grid, x, y, dx, dy, swapped, i + 1, n,
                           Returned(Append(r.value, <<tx, ty>>)))
             ELSE IF ~HasKey(grid, ox, oy) \/ ~HasKey(grid, x, y) THEN KeyError
             ELSE IF Board_piece(grid, ox, oy).colour # Board_piece(grid, x, y).colour
             THEN Returned(Append(r.value, <<tx, ty>>))
             ELSE r

\* get_valid_moves_rook(square, x, y)
get_valid_moves_rook(grid, x, y) ==
    LET right == RookLoop(grid, x, y, 1, 0, FALSE, 1, 8 - x, Returned(<<>>))
        left == RookLoop(grid, x, y, -1, 0, TRUE, 1, x + 1, right)
        above == RookLoop(grid, x, y, 0, 1, FALSE, 1, 8 - y, left)
    IN  RookLoop(grid, x, y, 0, -1, FALSE, 1, y + 1, above)

\* get_valid_moves_queen(square, x, y): a list whose one element is the list
\* get_valid_moves_bishop(...) + get_valid_moves_rook(...)
get_valid_moves_queen(grid, x, y) ==
    LET b == get_valid_moves_bishop(grid, x, y)
        r == get_valid_moves_rook(grid, x, y)
    IN  IF b.raised # "" THEN b
        ELSE IF r.raised # "" THEN r
        ELSE [raised |-> "", type |-> "list[list]", value |-> <<b.value \o r.value>>]

\* get_possible_moves_king: moves
KingMoves(x, y) ==
    << <<x, y + 1>>, <<x + 1, y + 1>>, <<x + 1, y>>, <<x + 1, y - 1>>,
       <<x, y - 1>>, <<x - 1, y - 1>>, <<x - 1, y>>, <<x - 1, y + 1>> >>

\* get_possible_moves_king, the loop `for move in moves` from index i on
RECURSIVE KingLoop(_, _, _, _, _, _)
KingLoop(grid, x, y, moves, i, r) ==
    IF r.raised # "" \/ i > Len(moves) THEN r
    ELSE KingLoop(grid, x, y, moves, i + 1,
                  OffsetTest(grid, r, x, y, moves[i][1], moves[i][2]))

\* get_possible_moves_king(square, x, y)
get_possible_moves_king(grid, x, y) ==
    KingLoop(grid, x, y, KingMoves(x, y), 1, Returned(<<>>))

\* MOVE_LISTS: the function each piece type is mapped to
MOVE_LISTS ==
    [t \in {PAWN, BISHOP, KNIGHT, ROOK, QUEEN, KING} |->
        CASE t = PAWN -> "get_valid_moves_pawn"
          [] t = BISHOP -> "get_valid_moves_bishop"
          [] t = KNIGHT -> "get_valid_moves_knight"
          [] t = ROOK -> "get_valid_moves_rook"
          [] t = QUEEN -> "get_valid_moves_queen"
          [] t = KING -> "get_possible_moves_king"]

\* Board.get_valid_moves(x, y): MOVE_LISTS[self.piece_type(x, y)], the function
\* itself, which is not called
Board_get_valid_moves(grid, x, y) ==
    IF ~HasKey(grid, x, y) THEN KeyError
    ELSE IF Board_piece_type(grid, x, y) \notin DOMAIN MOVE_LISTS THEN KeyError
    ELSE [raised |-> "", type |-> "function",
          value |-> MOVE_LISTS[Board_piece_type(grid, x, y)]]

(***************************************************************************)
(* main.py                                                                 *)
(***************************************************************************)

\* The layout Text_Board.compose loads:
\* "rnbqkbnr/pppppppp/8/8/8/8/PPPPPPPP/RNBQKBNR"
StartRows ==
    << <<"r", "n", "b", "q", "k", "b", "n", "r">>,
       <<"p", "p", "p", "p", "p", "p", "p", "p">>,
       <<"8">>, <<"8">>, <<"8">>, <<"8">>,
       <<"P", "P", "P", "P", "P", "P", "P", "P">>,
       <<"R", "N", "B", "Q", "K", "B", "N", "R">> >>

\* "/".join(rows)
RECURSIVE join(_)
join(rows) ==
    IF Len(rows) = 0 THEN <<>>
    ELSE IF Len(rows) = 1 THEN rows[1]
    ELSE rows[1] \o <<"/">> \o join(Tail(rows))

StartFen == join(StartRows)

(***************************************************************************)
(* The inputs                                                              *)
(***************************************************************************)

\* The most characters in the row of a layout that is varied
MaxRowLen == 3

\* The most pieces on a board beside the piece whose moves are asked for
MaxOthers == 1

\* The most calls of Piece.move_to in a run
MaxMoves == 1

\* The characters the varied row is written in: the digits 0 to 8, a black
\* piece's letter and a white piece's (StartRows holds all twelve letters)
RowChars == {"0", "1", "2", "3", "4", "5", "6", "7", "8", "p", "K"}

\* The squares a row describes: a letter one, a digit its value
RECURSIVE RowSquares(_)
RowSquares(row) ==
    IF Len(row) = 0 THEN 0
    ELSE (IF isnumeric(row[1]) THEN int(row[1]) ELSE 1) + RowSquares(Tail(row))

\* The rows of at most MaxRowLen characters that describe exactly 8 squares
RowPool ==
    {row \in UNION {[1 .. n -> RowChars] : n \in 1 .. MaxRowLen} :
        RowSquares(row) = BoardSize}

\* The rows every row but the varied one is taken from: StartRows, or all "8"
BaseRows == {StartRows, [r \in 1 .. BoardSize |-> <<"8">>]}

\* The layouts: 8 rows of 8 squares each, one of them from RowPool
FenInputs ==
    {join([base EXCEPT ![r] = row]) :
        base \in BaseRows, r \in 1 .. BoardSize, row \in RowPool}

\* A piece of colour c and type t on (x, y), as Board.from_fen makes it
PieceOn(x, y, c, t) == [Piece(x, y) EXCEPT !.colour = c, !.type = t]

\* The pieces that can stand on a square
PieceTypes == {PAWN, ROOK, BISHOP, QUEEN, KNIGHT, KING}

\* The boards with at most n pawns on them, placed with Board.place
RECURSIVE PawnBoards(_)
PawnBoards(n) ==
    IF n = 0 THEN {empty_board}
    ELSE LET less == PawnBoards(n - 1)
         IN  less \cup {place(b, PieceOn(k[1], k[2], c, PAWN)) :
                            b \in less, k \in Squares, c \in {WHITE, BLACK}}

NoCall == [fn |-> "", x |-> 0, y |-> 0, tx |-> 0, ty |-> 0, before |-> Piece(0, 0)]

NoReturn == [raised |-> "", type |-> "NoneType", value |-> <<>>]

(***************************************************************************)
(* Board.from_fen on a layout                                              *)
(***************************************************************************)

InitFen ==
    /\ fen \in FenInputs
    /\ pieces = empty_board
    /\ pc = "start"
    /\ call = NoCall
    /\ ret = NoReturn

\* board = Board.from_fen(fen)
FromFen ==
    /\ pc = "start"
    /\ pieces' = Board_from_fen(fen)
    /\ pc' = "loaded"
    /\ call' = [NoCall EXCEPT !.fn = "Board.from_fen"]
    /\ UNCHANGED <<fen, ret>>

NextFen == FromFen

SpecFen == InitFen /\ [][NextFen]_vars

(***************************************************************************)
(* Piece.move_to on the pieces of the start position                       *)
(***************************************************************************)

InitMove ==
    /\ fen = StartFen
    /\ pieces = Board_from_fen(StartFen)
    /\ pc = "ready"
    /\ call = NoCall
    /\ ret = NoReturn

\* The calls of move_to so far: every piece counts its own
RECURSIVE SumMoves(_, _)
SumMoves(grid, keys) ==
    IF keys = {} THEN 0
    ELSE LET k == CHOOSE k \in keys : TRUE
         IN  grid[k].moves_made + SumMoves(grid, keys \ {k})

\* board.piece(x, y).move_to(tx, ty): the piece is the object the grid holds
\* under (x, y), and stays under that key
MoveTo(x, y, tx, ty) ==
    /\ ~Board_empty(pieces, x, y)
    /\ pieces' = [pieces EXCEPT ![<<x, y>>] = Piece_move_to(@, tx, ty)]
    /\ pc' = "moved"
    /\ call' = [fn |-> "Piece.move_to", x |-> x, y |-> y, tx |-> tx, ty |-> ty,
                before |-> Board_piece(pieces, x, y)]
    /\ UNCHANGED <<fen, ret>>

NextMove ==
    /\ SumMoves(pieces, DOMAIN pieces) < MaxMoves
    /\ \E o \in Squares, d \in Squares : MoveTo(o[1], o[2], d[1], d[2])

SpecMove == InitMove /\ [][NextMove]_vars

(***************************************************************************)
(* The move generators on a board                                          *)
(***************************************************************************)

\* Either the start position, or a piece (or none) on the square asked about
\* and at most MaxOthers pawns elsewhere
Init ==
    /\ pc = "ready"
    /\ ret = NoReturn
    /\ \E k \in Squares :
          /\ call = [NoCall EXCEPT !.x = k[1], !.y = k[2]]
          /\ \/ /\ fen = StartFen
                /\ pieces = Board_from_fen(StartFen)
             \/ /\ fen = <<>>
                /\ \E b \in PawnBoards(MaxOthers) :
                      \/ pieces = place(b, Piece(k[1], k[2]))
                      \/ \E c \in {WHITE, BLACK}, t \in PieceTypes :
                            pieces = place(b, PieceOn(k[1], k[2], c, t))

\* The call fn(board, call.x, call.y) of a generator on a piece of type t
Generate(t, fn, outcome) ==
    /\ pc = "ready"
    /\ Board_piece_type(pieces, call.x, call.y) = t
    /\ ret' = outcome
    /\ call' = [call EXCEPT !.fn = fn]
    /\ pc' = "called"
    /\ UNCHANGED <<fen, pieces>>

CallPawn ==
    Generate(PAWN, "get_valid_moves_pawn",
             get_valid_moves_pawn(pieces, call.x, call.y))

CallBishop ==
    Generate(BISHOP, "get_valid_moves_bishop",
             get_valid_moves_bishop(pieces, call.x, call.y))

CallKnight ==
    Generate(KNIGHT, "get_valid_moves_knight",
             get_valid_moves_knight(pieces, call.x, call.y))

CallRook ==
    Generate(ROOK, "get_valid_moves_rook",
             get_valid_moves_rook(pieces, call.x, call.y))

CallQueen ==
    Generate(QUEEN, "get_valid_moves_queen",
             get_valid_moves_queen(pieces, call.x, call.y))

CallKing ==
    Generate(KING, "get_possible_moves_king",
             get_possible_moves_king(pieces, call.x, call.y))

\* board.get_valid_moves(call.x, call.y)
GetValidMoves ==
    /\ pc = "ready"
    /\ ret' = Board_get_valid_moves(pieces, call.x, call.y)
    /\ call' = [call EXCEPT !.fn = "Board.get_valid_moves"]
    /\ pc' = "called"
    /\ UNCHANGED <<fen, pieces>>

Next ==
    \/ CallPawn
    \/ CallBishop
    \/ CallKnight
    \/ CallRook
    \/ CallQueen
    \/ CallKing
    \/ GetValidMoves

Spec == Init /\ [][Next]_vars

(***************************************************************************)
(* The properties                                                          *)
(***************************************************************************)

\* The elements of a list
ToSet(s) == {s[i] : i \in DOMAIN s}

\* The state after the call of fn
Called(fn) == pc = "called" /\ call.fn = fn

\* The squares of a row, left to right: each digit n expanded into n empty
\* squares ".", each letter one square
RECURSIVE Expand(_)
Expand(row) ==
    IF Len(row) = 0 THEN <<>>
    ELSE (IF isnumeric(row[1]) THEN [i \in 1 .. int(row[1]) |-> "."] ELSE <<row[1]>>)
            \o Expand(Tail(row))

\* The grid has exactly the 64 squares, and the k-th square of row r is at
\* (k, 7 - r): a letter a piece of its kind and case, a digit's squares Empty
LayoutStored ==
    /\ DOMAIN pieces = Squares
    /\ \A r \in 0 .. BoardSize - 1 : \A k \in 0 .. BoardSize - 1 :
          LET cell == Expand(split(fen, 1, <<>>)[r + 1])[k + 1]
              p == pieces[<<k, 7 - r>>]
          IN  /\ p.x = k /\ p.y = 7 - r
              /\ IF cell = "."
                 THEN p.type = EMPTY /\ p.colour = NONE
                 ELSE /\ p.type = FEN_MAP[lower(cell)]
                      /\ p.colour = IF isupper(cell) THEN WHITE ELSE BLACK

HasZero == \E i \in DOMAIN fen : fen[i] = "0"

\* C1, as amended: for every layout of 8 rows of exactly 8 squares each whose
\* digits are all between 1 and 8, Board.from_fen returns a grid of exactly the
\* 64 squares in which the k-th square of row r is stored at (k, 7 - r), a
\* letter as a piece of its kind (White if uppercase, Black if lowercase) and a
\* digit's squares as Empty pieces of colour NONE.
C1_LayoutStored == (pc = "loaded" /\ ~HasZero) => LayoutStored

\* C1 as stated: the same of every layout of 8 rows of exactly 8 squares, a
\* digit 0 (a run of no squares) included.
C1_AnyDigit == pc = "loaded" => LayoutStored

\* A layout without 0 is loaded in which a letter follows a run of two or more
\* empty squares, and the letter's piece is where the claim says.
C1_Witness ==
    /\ pc = "loaded"
    /\ ~HasZero
    /\ \E i \in 1 .. Len(fen) - 1 :
          /\ isnumeric(fen[i]) /\ int(fen[i]) >= 2
          /\ fen[i + 1] \in {"p", "K"}
    /\ \E k \in Squares : pieces[k].type \in {PAWN, KING} /\ k[1] >= 2

\* C2: after move_to on the piece the board holds at the origin, with the
\* destination another square, Board.piece(destination) is the moved piece
\* with has_moved true and moves_made one more than before, and
\* Board.piece(origin) is Empty.
C2_MoveApplied ==
    (pc = "moved" /\ <<call.x, call.y>> # <<call.tx, call.ty>>) =>
        LET p == Board_piece(pieces, call.tx, call.ty)
        IN  /\ p.type = call.before.type
            /\ p.colour = call.before.colour
            /\ p.has_moved
            /\ p.moves_made = call.before.moves_made + 1
            /\ Board_empty(pieces, call.x, call.y)

\* The piece on (tx, ty) is of the colour opposite to that of the piece on (x, y)
Opposing(grid, x, y, tx, ty) ==
    grid[<<tx, ty>>].colour \notin {NONE, grid[<<x, y>>].colour}

\* The ray from (x, y) along (dx, dy): every empty square up to the first
\* occupied one or the edge, and the first occupied one iff it is opposing
Ray(grid, x, y, dx, dy) ==
    LET at(k) == <<x + k * dx, y + k * dy>>
    IN  {at(k) : k \in {k \in 1 .. BoardSize - 1 :
            /\ at(k) \in Squares
            /\ \A j \in 1 .. k - 1 : grid[at(j)].type = EMPTY
            /\ \/ grid[at(k)].type = EMPTY
               \/ Opposing(grid, x, y, at(k)[1], at(k)[2])}}

\* The squares at the offsets offs from (x, y) that are on the board and are
\* empty or hold an opposing piece
Offsets(grid, x, y, offs) ==
    {s \in {<<x + o[1], y + o[2]>> : o \in offs} :
        /\ s \in Squares
        /\ grid[s].type = EMPTY \/ Opposing(grid, x, y, s[1], s[2])}

\* C3: get_valid_moves_rook returns only squares of the board, and exactly the
\* four orthogonal rays: each holds every empty square up to the first
\* occupied one and that one iff its occupant is of the opposite colour.
C3_RookRays ==
    Called("get_valid_moves_rook") =>
        /\ ret.raised = ""
        /\ ToSet(ret.value) \subseteq Squares
        /\ ToSet(ret.value) =
              UNION {Ray(pieces, call.x, call.y, d[1], d[2]) :
                        d \in {<<1, 0>>, <<-1, 0>>, <<0, 1>>, <<0, -1>>}}

\* C4: get_valid_moves_bishop completes without a lookup outside the board,
\* and returns exactly the four diagonal rays from the bishop's own square.
C4_BishopRays ==
    Called("get_valid_moves_bishop") =>
        /\ ret.raised = ""
        /\ ToSet(ret.value) =
              UNION {Ray(pieces, call.x, call.y, d[1], d[2]) :
                        d \in {<<-1, 1>>, <<1, 1>>, <<-1, -1>>, <<1, -1>>}}

\* C5: get_valid_moves_knight returns exactly the squares at the eight knight
\* offsets that are on the board and are empty or hold an opposing piece.
C5_KnightOffsets ==
    Called("get_valid_moves_knight") =>
        /\ ret.raised = ""
        /\ ToSet(ret.value) =
              Offsets(pieces, call.x, call.y,
                      {o \in {-2, -1, 1, 2} \X {-2, -1, 1, 2} :
                          o[1] * o[1] + o[2] * o[2] = 5})

\* C6: get_possible_moves_king completes normally on every square, the edges
\* and corners included, and returns exactly the adjacent squares that are on
\* the board and are empty or hold an opposing piece.
C6_KingAdjacent ==
    Called("get_possible_moves_king") =>
        /\ ret.raised = ""
        /\ ToSet(ret.value) =
              Offsets(pieces, call.x, call.y,
                      ({-1, 0, 1} \X {-1, 0, 1}) \ {<<0, 0>>})

\* The direction a pawn of the colour on (x, y) advances in, the rank it
\* starts on and the colour it captures
Forward(grid, x, y) == IF grid[<<x, y>>].colour = WHITE THEN 1 ELSE -1

StartRank(grid, x, y) == IF grid[<<x, y>>].colour = WHITE THEN 1 ELSE 6

Enemy(grid, x, y) == IF grid[<<x, y>>].colour = WHITE THEN BLACK ELSE WHITE

\* C7: the double step is among a pawn's moves only when the pawn stands on
\* its starting rank and both the square in between and the target are empty.
C7_PawnDouble ==
    (Called("get_valid_moves_pawn") /\ ret.raised = "") =>
        LET x == call.x
            y == call.y
            d == Forward(pieces, x, y)
        IN  <<x, y + 2 * d>> \in ToSet(ret.value) =>
                /\ y = StartRank(pieces, x, y)
                /\ Board_empty(pieces, x, y + d)
                /\ Board_empty(pieces, x, y + 2 * d)

\* C8: on every file, each of the two forward-diagonal squares is among a
\* pawn's moves exactly when it is on the board and holds an opposing piece.
C8_PawnCaptures ==
    (Called("get_valid_moves_pawn") /\ ret.raised = "") =>
        LET x == call.x
            y == call.y
            d == Forward(pieces, x, y)
        IN  \A i \in {-1, 1} :
                <<x + i, y + d>> \in ToSet(ret.value) <=>
                    /\ <<x + i, y + d>> \in Squares
                    /\ pieces[<<x + i, y + d>>].colour = Enemy(pieces, x, y)

\* C9: get_valid_moves_queen returns a list of squares, which as a set is the
\* union of the rook's and the bishop's destinations from the same square.
C9_QueenUnion ==
    Called("get_valid_moves_queen") =>
        /\ ret.raised = ""
        /\ ret.type = "list[tuple]"
        /\ get_valid_moves_rook(pieces, call.x, call.y).raised = ""
        /\ get_valid_moves_bishop(pieces, call.x, call.y).raised = ""
        /\ ToSet(ret.value) =
              ToSet(get_valid_moves_rook(pieces, call.x, call.y).value)
                  \cup ToSet(get_valid_moves_bishop(pieces, call.x, call.y).value)

\* What the generator of the type of the piece on (x, y) returns
Destinations(grid, x, y) ==
    LET t == Board_piece_type(grid, x, y)
    IN  CASE t = PAWN -> get_valid_moves_pawn(grid, x, y)
          [] t = BISHOP -> get_valid_moves_bishop(grid, x, y)
          [] t = KNIGHT -> get_valid_moves_knight(grid, x, y)
          [] t = ROOK -> get_valid_moves_rook(grid, x, y)
          [] t = QUEEN -> get_valid_moves_queen(grid, x, y)
          [] t = KING -> get_possible_moves_king(grid, x, y)

\* C10: Board.get_valid_moves returns the destination squares of the piece on
\* the square, and on an Empty square the empty list, without an error.
C10_Dispatch ==
    Called("Board.get_valid_moves") =>
        /\ ret.raised = ""
        /\ ret.type = "list[tuple]"
        /\ IF Board_empty(pieces, call.x, call.y)
           THEN ret.value = <<>>
           ELSE ret.value = Destinations(pieces, call.x, call.y).value

====
